---- MODULE Spec2Model ----
(***************************************************************************)
(* KokkosFFT::Impl::get_extents (common/src/KokkosFFT_layouts.hpp).        *)
(*                                                                         *)
(* get_extents is a pure function of an input view, an output view and a   *)
(* list of DIM transform axes.  The model holds one call: the views, the   *)
(* axes and what the call produced.  Vectors are sequences; the code's     *)
(* 0-based positions are read with At(v, i).                               *)
(*                                                                         *)
(* Extents are kept far below INT_MAX by MaxExtent and MaxRank, so the     *)
(* narrowing of size_t extents to int (lines 50-58) and the int products   *)
(* (lines 95-98) are exact here.                                           *)
(***************************************************************************)
EXTENDS Integers, Sequences, FiniteSets, TLC

\* the template instantiation: InViewType, OutViewType and DIM
VARIABLES array_layout_type, in_value_type, out_value_type, rank, DIM
\* the call's arguments: the two views' extents and _axes
VARIABLES in_extent, out_extent, axes
\* whether get_extents was called, and what the call produced
VARIABLES called, result

vars == <<array_layout_type, in_value_type, out_value_type, rank, DIM,
          in_extent, out_extent, axes, called, result>>

\* ---------------------------------------------------------------- bounds
MaxRank == 2
MaxExtent == 2

Layouts == {"LayoutRight", "LayoutLeft"}
\* element types: floating point, Kokkos::complex, anything else
ValueTypes == {"real", "complex", "integral"}
ExtentSet == 0..MaxExtent
Shapes(r) == [1..r -> ExtentSet]
AxisLists(r, d) ==
  {a \in [1..d -> 0..(r - 1)] : \A i, j \in 1..d : i # j => a[i] # a[j]}

\* ------------------------------------------------------- vector helpers
At(v, i) == v[i + 1]

Reverse(v) == [i \in 1..Len(v) |-> v[Len(v) + 1 - i]]

RangeOf(v) == {v[i] : i \in 1..Len(v)}

MaxKeepsFirst(a, b) == a
Max(a, b) == IF a < b THEN b ELSE a

is_floating_point(t) == t = "real"
is_complex(t) == t = "complex"

\* the axes of 0..rank-1 that are not transform axes, ascending from i
RECURSIVE NotInAxes(_, _, _)
NotInAxes(i, r, _axes) ==
  IF i >= r THEN <<>>
  ELSE (IF i \in RangeOf(_axes) THEN <<>> ELSE <<i>>) \o NotInAxes(i + 1, r, _axes)

\* index map after transpose over axis: the transform axes are stacked at
\* the innermost end of the storage order, the last axis of the list innermost
get_map_axes(layout, r, _axes) ==
  IF layout = "LayoutLeft"
  THEN Reverse(_axes) \o NotInAxes(0, r, _axes)
  ELSE NotInAxes(0, r, _axes) \o _axes

InnerMostAlwaysLast(layout, r) == r - 1
InnerMostAlwaysFirst(layout, r) == 0
inner_most_axis(layout, r) == IF layout = "LayoutLeft" THEN 0 ELSE r - 1

\* the loop over i < rank
FullInExtents(map, in) == [i \in 1..Len(map) |-> At(in.extents, map[i])]
FullOutExtents(map, out) == [i \in 1..Len(map) |-> At(out.extents, map[i])]
FullFftExtents(map, in, out) ==
  [i \in 1..Len(map) |-> Max(At(in.extents, map[i]), At(out.extents, map[i]))]

\* if (std::is_floating_point<in_value_type>::value) ...
R2CCheck(in, out, _in_extents, _out_extents, ima) ==
  IF is_floating_point(in.value_type)
  THEN IF is_complex(out.value_type)
       THEN IF At(_out_extents, ima) = (At(_in_extents, ima) \div 2) + 1
            THEN "ok" ELSE "assert"
       ELSE "throw_output_should_be_complex"
  ELSE "ok"

\* if (std::is_floating_point<out_value_type>::value) ...
C2RCheckNoThrow(in, out, _in_extents, _out_extents, ima) ==
  IF is_floating_point(out.value_type) /\ is_complex(in.value_type)
  THEN IF At(_in_extents, ima) = (At(_out_extents, ima) \div 2) + 1
       THEN "ok" ELSE "assert"
  ELSE "ok"
C2RCheck(in, out, _in_extents, _out_extents, ima) ==
  IF is_floating_point(out.value_type)
  THEN IF is_complex(in.value_type)
       THEN IF At(_in_extents, ima) = (At(_out_extents, ima) \div 2) + 1
            THEN "ok" ELSE "assert"
       ELSE "throw_input_should_be_complex"
  ELSE "ok"

\* if (std::is_same<array_layout_type, Kokkos::LayoutLeft>::value) std::reverse
LayoutReverseForgotten(layout, v) == v
LayoutReverse(layout, v) == IF layout = "LayoutLeft" THEN Reverse(v) ELSE v

\* std::vector<int>(v.end() - DIM, v.end())
SubvectorFromFront(v, d) == SubSeq(v, 1, d)
Subvector(v, d) == SubSeq(v, Len(v) - d + 1, Len(v))

\* std::accumulate(v.begin(), v.end(), 1, std::multiplies<>())
RECURSIVE SumOf(_)
SumOf(v) == IF v = <<>> THEN 1 ELSE Head(v) + SumOf(Tail(v))
RECURSIVE Product(_)
Product(v) == IF v = <<>> THEN 1 ELSE Head(v) * Product(Tail(v))

\* total_fft_size / fft_size, for fft_size # 0
HowmanySwapped(total_fft_size, fft_size) ==
  IF total_fft_size = 0 THEN 0 ELSE fft_size \div total_fft_size
Howmany(total_fft_size, fft_size) == total_fft_size \div fft_size

Failure(o) ==
  [outcome |-> o, in_extents |-> <<>>, out_extents |-> <<>>,
   fft_extents |-> <<>>, howmany |-> 0]

NoResult == Failure("none")

get_extents(layout, in, out, _axes) ==
  LET r == Len(in.extents)
      d == Len(_axes)
      map == get_map_axes(layout, r, _axes)
      ima == inner_most_axis(layout, r)
      _in == FullInExtents(map, in)
      _out == FullOutExtents(map, out)
      _fft == FullFftExtents(map, in, out)
      r2c == R2CCheck(in, out, _in, _out, ima)
      c2r == C2RCheck(in, out, _in, _out, ima)
      in_extents == Subvector(LayoutReverse(layout, _in), d)
      out_extents == Subvector(LayoutReverse(layout, _out), d)
      fft_extents == Subvector(LayoutReverse(layout, _fft), d)
      total_fft_size == Product(LayoutReverse(layout, _fft))
      fft_size == Product(fft_extents)
  IN  IF r2c # "ok" THEN Failure(r2c)
      ELSE IF c2r # "ok" THEN Failure(c2r)
      ELSE [outcome |-> IF fft_size = 0 THEN "division_by_zero" ELSE "return",
            in_extents |-> in_extents, out_extents |-> out_extents,
            fft_extents |-> fft_extents,
            howmany |-> IF fft_size = 0 THEN 0
                        ELSE Howmany(total_fft_size, fft_size)]

\* total_fft_size / fft_size with fft_size == 0 is undefined: the build either
\* traps (SIGFPE) or the division yields 0 and the function returns
Completions(r) ==
  IF r.outcome = "division_by_zero"
  THEN {Failure("sigfpe"), [r EXCEPT !.outcome = "return"]}
  ELSE {r}

View(t, e) == [value_type |-> t, extents |-> e]

\* ------------------------------------------------------------ the system
\* get_extents<InViewType, OutViewType, DIM> is instantiated; static_assert:
\* InViewType::rank() >= DIM and DIM > 0
Init ==
  /\ array_layout_type \in Layouts
  /\ in_value_type \in ValueTypes
  /\ out_value_type \in ValueTypes
  /\ rank \in 1..MaxRank
  /\ DIM \in 1..rank
  /\ in_extent = <<>>
  /\ out_extent = <<>>
  /\ axes = <<>>
  /\ called = FALSE
  /\ result = NoResult

\* one call of get_extents(in, out, _axes)
GetExtents ==
  /\ ~called
  /\ \E is \in Shapes(rank), os \in Shapes(rank), a \in AxisLists(rank, DIM) :
       /\ in_extent' = is
       /\ out_extent' = os
       /\ axes' = a
       /\ result' \in Completions(get_extents(array_layout_type,
                        View(in_value_type, is), View(out_value_type, os), a))
  /\ called' = TRUE
  /\ UNCHANGED <<array_layout_type, in_value_type, out_value_type, rank, DIM>>

Next == GetExtents

Spec == Init /\ [][Next]_vars

\* ------------------------------------------------------------ properties
Returned == called /\ result.outcome = "return"

RealToComplex == in_value_type = "real" /\ out_value_type = "complex"
ComplexToReal == in_value_type = "complex" /\ out_value_type = "real"
RealComplexPair == RealToComplex \/ ComplexToReal

RealSide == IF in_value_type = "real" THEN in_extent ELSE out_extent
ComplexSide == IF in_value_type = "real" THEN out_extent ELSE in_extent

\* the halving relation on view axis a
Halved(a) == At(ComplexSide, a) = (At(RealSide, a) \div 2) + 1

\* max(in.extent(a), out.extent(a)) of view axis a
AxisMax(a) ==
  IF At(in_extent, a) >= At(out_extent, a) THEN At(in_extent, a) ELSE At(out_extent, a)

RECURSIVE ProductUpTo(_, _)
ProductUpTo(f, n) == IF n = 0 THEN 1 ELSE f[n] * ProductUpTo(f, n - 1)

\* C1: a row-major real/complex call returns iff the complex side is halved
\* at the checked position, and aborts on the assertion otherwise.
C1_ReturnsIffHalved ==
  (called /\ array_layout_type = "LayoutRight" /\ RealComplexPair) =>
    LET checked == At(get_map_axes(array_layout_type, rank, axes),
                      inner_most_axis(array_layout_type, rank))
    IN  /\ (result.outcome = "return") <=> Halved(checked)
        /\ ~Halved(checked) => result.outcome = "assert"

\* C2: on return, fft_extents[k] = max(in_extents[k], out_extents[k]) for every
\* transform position k, in both storage orders.
C2_FftExtentIsMax ==
  Returned =>
    /\ Len(result.fft_extents) = DIM
    /\ Len(result.in_extents) = DIM
    /\ Len(result.out_extents) = DIM
    /\ \A k \in 1..DIM :
         /\ result.fft_extents[k] >= result.in_extents[k]
         /\ result.fft_extents[k] >= result.out_extents[k]
         /\ result.fft_extents[k] \in {result.in_extents[k], result.out_extents[k]}

C2_Witness ==
  /\ Returned
  /\ array_layout_type = "LayoutLeft"
  /\ DIM = 2
  /\ result.in_extents[1] < result.out_extents[1]
  /\ result.in_extents[2] > result.out_extents[2]

\* C3: row-major, any D distinct axes: the returned sequences hold the extents
\* of the chosen axes in axis-list order.
C3_RowMajorAxisListOrder ==
  (Returned /\ array_layout_type = "LayoutRight") =>
    \A k \in 1..DIM :
      /\ result.in_extents[k] = At(in_extent, axes[k])
      /\ result.out_extents[k] = At(out_extent, axes[k])
      /\ result.fft_extents[k] = AxisMax(axes[k])

C3_Witness ==
  /\ Returned
  /\ array_layout_type = "LayoutRight"
  /\ rank = 2
  /\ axes = <<0>>
  /\ in_extent = <<2, 1>>
  /\ out_extent = <<2, 0>>
  /\ result.fft_extents = <<2>>

\* C4: a column-major call yields what the row-major call on the reversed
\* shape with axes rank-1-a[k] yields.
RowMajorAxes == [k \in 1..DIM |-> rank - 1 - axes[k]]

C4_ColumnMajorAsReversedRowMajor ==
  (called /\ array_layout_type = "LayoutLeft") =>
    \E eq \in Completions(get_extents("LayoutRight",
                 View(in_value_type, Reverse(in_extent)),
                 View(out_value_type, Reverse(out_extent)), RowMajorAxes)) :
      /\ eq.outcome = result.outcome
      /\ eq.in_extents = result.in_extents
      /\ eq.out_extents = result.out_extents
      /\ eq.fft_extents = result.fft_extents

C4_Witness ==
  /\ Returned
  /\ array_layout_type = "LayoutLeft"
  /\ rank = 2
  /\ axes = <<1>>
  /\ in_extent = <<1, 2>>
  /\ out_extent = <<0, 1>>
  /\ result.in_extents = <<2>>

\* C5: rank-2 column-major real input, axis 0, complex output: output shape
\* (n0/2+1, n1) is accepted, output shape (n0, n1) aborts when n0 # n0/2+1.
C5_ColumnMajorHalvingOnAxis0 ==
  (called /\ array_layout_type = "LayoutLeft" /\ rank = 2 /\ axes = <<0>>
     /\ RealToComplex) =>
    LET n0 == in_extent[1]
        n1 == in_extent[2]
    IN  /\ out_extent = <<(n0 \div 2) + 1, n1>> => result.outcome = "return"
        /\ (out_extent = <<n0, n1>> /\ n0 # (n0 \div 2) + 1)
             => result.outcome = "assert"

C5_Witness ==
  /\ called
  /\ array_layout_type = "LayoutLeft"
  /\ RealToComplex
  /\ axes = <<0>>
  /\ in_extent = <<0, 1>>
  /\ out_extent = <<0, 1>>
  /\ result.outcome = "assert"

\* C6: on return, batch_count * product(fft_extents) is the product of
\* max(in, out) over all rank axes, so the division is exact.
C6_BatchTimesFftIsTotal ==
  Returned =>
    result.howmany * ProductUpTo(result.fft_extents, DIM)
      = ProductUpTo([i \in 1..rank |-> AxisMax(i - 1)], rank)

C6_Witness ==
  /\ Returned
  /\ rank = 2
  /\ DIM = 1
  /\ result.fft_extents = <<2>>
  /\ result.howmany = 2

\* C7 as stated: real output with a non-complex input fails with the error
\* that names the input as the side expected to be complex.
C7_InputShouldBeComplex ==
  (called /\ out_value_type = "real" /\ in_value_type # "complex") =>
    result.outcome = "throw_input_should_be_complex"

\* C7 amended: real output with a non-complex input fails with a type-mismatch
\* error: the one naming the output when the input is real too, the one naming
\* the input otherwise.
C7_TypeMismatchBySide ==
  (called /\ out_value_type = "real" /\ in_value_type # "complex") =>
    result.outcome = IF in_value_type = "real"
                     THEN "throw_output_should_be_complex"
                     ELSE "throw_input_should_be_complex"

C7_Witness ==
  /\ called
  /\ out_value_type = "real"
  /\ in_value_type = "integral"
  /\ result.outcome = "throw_input_should_be_complex"

\* C8: with extents from 0 up, a call returns, throws a type mismatch or
\* aborts on the halving assertion, and never divides by fft_size = 0.
C8_ThreeOutcomes ==
  called =>
    /\ result.outcome \in {"return", "assert", "throw_output_should_be_complex",
                           "throw_input_should_be_complex"}
    /\ result.outcome = "return" => ProductUpTo(result.fft_extents, DIM) # 0

\* C9: row-major real/complex pair: the call aborts on the halving assertion
\* exactly when the relation fails on view axis axes[D-1]; no other axis decides.
C9_HalvingOnLastListedAxis ==
  (called /\ array_layout_type = "LayoutRight" /\ RealComplexPair) =>
    ((result.outcome = "assert") <=> ~Halved(axes[DIM]))

C9_Witness ==
  /\ Returned
  /\ array_layout_type = "LayoutRight"
  /\ RealComplexPair
  /\ axes = <<1, 0>>
  /\ Halved(0)
  /\ ~Halved(1)
  /\ At(in_extent, 1) # At(out_extent, 1)

\* C10: on return with all transform extents >= 1, batch_count is the product
\* of max(in, out) over the non-transform axes, hence >= 1 when all extents are.
C10_BatchIsNonTransformProduct ==
  (Returned /\ \A k \in 1..DIM : result.fft_extents[k] >= 1) =>
    /\ result.howmany =
         ProductUpTo([i \in 1..rank |->
                        IF (i - 1) \in RangeOf(axes) THEN 1 ELSE AxisMax(i - 1)], rank)
    /\ (\A i \in 1..rank : in_extent[i] >= 1 /\ out_extent[i] >= 1)
         => result.howmany >= 1

C10_Witness ==
  /\ Returned
  /\ rank = 2
  /\ axes = <<1>>
  /\ in_extent = <<1, 2>>
  /\ out_extent = <<2, 2>>
  /\ result.howmany = 2

====
